---- MODULE Spec2Model ----
(***************************************************************************)
(* kintai-fe: the work-time aggregation of src/src/App.tsx.                *)
(*                                                                         *)
(* calculateTodayWorkTime(logs, currentStatus) walks the attendance log,   *)
(* pairs start-like events with end-like events, clips every interval to   *)
(* the start of the logical day (which begins at RESET_HOUR) and, when the *)
(* user is working, extends the open interval to the instant read from the *)
(* clock.  The App calls it from a one-second interval timer and shows the *)
(* result as todayWorkTime.                                                *)
(*                                                                         *)
(* SpecApp is the App component around it: the session state (userId,     *)
(* discordUser, loading), the GET /status requests of fetchStatus with     *)
(* their answers in flight, logout, login polling and the two POSTs.       *)
(*                                                                         *)
(* Time is counted in minutes of local time (the code counts milliseconds  *)
(* of the same instants); a timestamp is the instant new Date(s).getTime() *)
(* gives for a well-formed ISO string.                                     *)
(***************************************************************************)
EXTENDS Integers, Sequences, FiniteSets, TLC

VARIABLES
    logs,           \* App state: LogEntry[] (useState, line 87)
    status,         \* App state: UserStatus (useState, line 86)
    todayWorkTime,  \* App state: the displayed work time (useState, line 92)
    clock,          \* the wall clock that new Date() reads
    now,            \* the Date captured by the latest call of
                    \* calculateTodayWorkTime (line 30), Null before any call
    userId,         \* App state: string | null (useState, line 89)
    discordUser,    \* App state: DiscordUser | undefined (useState, line 88)
    loading,        \* App state (useState, line 90)
    isLoggingIn,    \* App state (useState, line 91)
    storedId,       \* localStorage 'kintai_user_id'
    requests,       \* the GET /status requests fetchStatus has issued, in the
                    \* order of issue: in flight ("sent") or answered ("done")
    posts           \* the POST /stamp and POST /clock_out requests in flight

appVars == <<userId, discordUser, loading, isLoggingIn, storedId, requests, posts>>

vars == <<logs, status, todayWorkTime, clock, now, userId, discordUser, loading,
          isLoggingIn, storedId, requests, posts>>

----------------------------------------------------------------------------
(* Bounds and input sets *)

\* longest attendance log drawn as input
MaxLen == 3

RESET_HOUR == 5

\* null (lastStartTime: number | null); every instant is >= 0
Null == -1

\* the instant of local time h:m on day d, in minutes
At(d, h, m) == ((d * 24) + h) * 60 + m

UserStatus == {"unregistered", "working", "on_break"}

AttendanceRecordType == {"work_start", "work_end", "break_start", "break_end"}

\* a kind the TypeScript type does not list but the JSON of /status may carry
UnknownType == {"overtime_start"}

\* timestamps of log entries: the evening before the reset hour, and two
\* instants of the day after it
EventTimes == {At(1, 23, 0), At(2, 9, 0), At(2, 10, 0)}

\* instants the clock shows: before the reset hour (04:00), 09:30 and 12:00
NowTimes == {At(2, 4, 0), At(2, 9, 30), At(2, 12, 0)}

LogEntry == [type : AttendanceRecordType \cup UnknownType, timestamp : EventTimes]

BoundedLogs == UNION {[1..n -> LogEntry] : n \in 0..MaxLen}

----------------------------------------------------------------------------
(* calculateTodayWorkTime *)

Max(a, b) == IF a >= b THEN a ELSE b

\* Date.prototype.getHours of an instant
getHours(t) == (t \div 60) % 24

\* lines 33-38: the logical start of today
startOfTodayTime(t) ==
    LET midnight == (t \div (24 * 60)) * (24 * 60)
        day == IF getHours(t) < RESET_HOUR THEN midnight - (24 * 60) ELSE midnight
    IN  day + RESET_HOUR * 60

\* AddedTime without the test effectiveEnd > effectiveStart
AddedTime_Unguarded(start, end, startOfToday) ==
    end - (IF start >= startOfToday THEN start ELSE startOfToday)

\* lines 52-57 and 65-70: the duration an interval [start, end) adds
AddedTime(start, end, startOfToday) ==
    LET effectiveStart == Max(start, startOfToday)
        effectiveEnd == end
    IN  IF effectiveEnd > effectiveStart THEN effectiveEnd - effectiveStart ELSE 0

\* ScanStep where a start-like event does not overwrite an open start
ScanStep_KeepsFirstStart(st, log, startOfToday) ==
    IF log.type = "work_start" \/ log.type = "break_end"
    THEN IF st.lastStartTime = Null
         THEN [st EXCEPT !.lastStartTime = log.timestamp]
         ELSE st
    ELSE IF (log.type = "work_end" \/ log.type = "break_start")
            /\ st.lastStartTime # Null
    THEN [totalTime |-> st.totalTime
                          + AddedTime(st.lastStartTime, log.timestamp, startOfToday),
          lastStartTime |-> Null]
    ELSE st

\* ScanStep where closing an interval does not clear lastStartTime
ScanStep_NoClear(st, log, startOfToday) ==
    IF log.type = "work_start" \/ log.type = "break_end"
    THEN [st EXCEPT !.lastStartTime = log.timestamp]
    ELSE IF (log.type = "work_end" \/ log.type = "break_start")
            /\ st.lastStartTime # Null
    THEN [st EXCEPT !.totalTime =
              st.totalTime + AddedTime(st.lastStartTime, log.timestamp, startOfToday)]
    ELSE st

\* ScanStep with a plain else: every kind that is not start-like ends
ScanStep_UnknownEnds(st, log, startOfToday) ==
    IF log.type = "work_start" \/ log.type = "break_end"
    THEN [st EXCEPT !.lastStartTime = log.timestamp]
    ELSE IF st.lastStartTime # Null
    THEN [totalTime |-> st.totalTime
                          + AddedTime(st.lastStartTime, log.timestamp, startOfToday),
          lastStartTime |-> Null]
    ELSE st

\* lines 45-60: one iteration of the loop over the log
ScanStep(st, log, startOfToday) ==
    LET time == log.timestamp
    IN  IF log.type = "work_start" \/ log.type = "break_end"
        THEN [st EXCEPT !.lastStartTime = time]
        ELSE IF log.type = "work_end" \/ log.type = "break_start"
        THEN IF st.lastStartTime # Null
             THEN [totalTime |-> st.totalTime
                                   + AddedTime(st.lastStartTime, time, startOfToday),
                   lastStartTime |-> Null]
             ELSE st
        ELSE st

\* lines 40-61: totalTime and lastStartTime after the first k entries
RECURSIVE ScanTo(_, _, _)
ScanTo(l, k, startOfToday) ==
    IF k = 0 THEN [totalTime |-> 0, lastStartTime |-> Null]
    ELSE ScanStep(ScanTo(l, k - 1, startOfToday), l[k], startOfToday)

\* FinalTime with the final block left out: the open interval is never closed
FinalTime_NeverClosed(st, currentStatus, t, startOfToday) == st.totalTime

\* FinalTime without the test of currentStatus: a dangling start always counts
FinalTime_AnyStatus(st, currentStatus, t, startOfToday) ==
    IF st.lastStartTime # Null
    THEN st.totalTime
         + (IF t > (IF st.lastStartTime >= startOfToday THEN st.lastStartTime
                    ELSE startOfToday)
            THEN t - (IF st.lastStartTime >= startOfToday THEN st.lastStartTime
                      ELSE startOfToday)
            ELSE 0)
    ELSE st.totalTime

\* FinalTime that counts from the start of today when no start is open
FinalTime_FromStartOfToday(st, currentStatus, t, startOfToday) ==
    IF currentStatus = "working"
    THEN st.totalTime
         + (IF st.lastStartTime # Null
            THEN AddedTime(st.lastStartTime, t, startOfToday)
            ELSE AddedTime(startOfToday, t, startOfToday))
    ELSE st.totalTime

\* lines 63-73: the open interval is closed at now when the user is working
FinalTime(st, currentStatus, t, startOfToday) ==
    IF currentStatus = "working" /\ st.lastStartTime # Null
    THEN st.totalTime + AddedTime(st.lastStartTime, t, startOfToday)
    ELSE st.totalTime

\* lines 31-73: the body of calculateTodayWorkTime once now has been read
WorkTimeAt(l, currentStatus, t) ==
    FinalTime(ScanTo(l, Len(l), startOfTodayTime(t)), currentStatus, t,
              startOfTodayTime(t))

\* calculateTodayWorkTime with totalTime kept across calls instead of reset
calculateTodayWorkTime_Accumulating(l, currentStatus) ==
    todayWorkTime + WorkTimeAt(l, currentStatus, clock)

\* lines 29-74: now is read from the clock inside the call (line 30)
calculateTodayWorkTime(l, currentStatus) == WorkTimeAt(l, currentStatus, clock)

----------------------------------------------------------------------------
(* The App: the state the timer works on *)

Init ==
    /\ logs \in BoundedLogs
    /\ status \in UserStatus
    /\ todayWorkTime = 0
    /\ clock \in NowTimes
    /\ now = Null
    /\ userId = "u1"
    /\ discordUser = "alice"
    /\ loading = FALSE
    /\ isLoggingIn = FALSE
    /\ storedId = "u1"
    /\ requests = <<>>
    /\ posts = <<>>

\* TimerTick without the else branch: an empty log leaves todayWorkTime as it is
TimerTick_NoElse ==
    /\ IF Len(logs) > 0
       THEN /\ todayWorkTime' = calculateTodayWorkTime(logs, status)
            /\ now' = clock
       ELSE UNCHANGED <<todayWorkTime, now>>
    /\ UNCHANGED <<logs, status, clock>>
    /\ UNCHANGED appVars

\* lines 151-158: the interval timer's callback
TimerTick ==
    /\ IF Len(logs) > 0
       THEN /\ todayWorkTime' = calculateTodayWorkTime(logs, status)
            /\ now' = clock
       ELSE /\ todayWorkTime' = 0
            /\ now' = now
    /\ UNCHANGED <<logs, status, clock>>
    /\ UNCHANGED appVars

\* time passes between two callbacks
ClockAdvance ==
    /\ \E t \in NowTimes : t > clock /\ clock' = t
    /\ UNCHANGED <<logs, status, todayWorkTime, now>>
    /\ UNCHANGED appVars

Next == TimerTick \/ ClockAdvance

Spec == Init /\ [][Next]_vars

----------------------------------------------------------------------------
(* The App: login, logout and the GET /status requests *)

\* most GET /status requests issued in one run
MaxRequests == 3

\* most POST requests in flight at once
MaxPosts == 1

\* userId: null
NoUser == "null"

\* discordUser: undefined
Undefined == "undefined"

\* bodies of a 200 answer of GET /status (the backend is not part of this
\* repository: it may answer any StatusResponse)
StatusResponses ==
    { [currentStatus |-> "unregistered", attendanceLog |-> <<>>,
       discordUser |-> "alice"],
      [currentStatus |-> "working",
       attendanceLog |-> <<[type |-> "work_start", timestamp |-> At(2, 9, 0)]>>,
       discordUser |-> "alice"],
      [currentStatus |-> "on_break",
       attendanceLog |-> <<[type |-> "work_start", timestamp |-> At(2, 9, 0)],
                           [type |-> "break_start", timestamp |-> At(2, 10, 0)]>>,
       discordUser |-> "alice"],
      [currentStatus |-> "working", attendanceLog |-> <<>>,
       discordUser |-> Undefined] }

\* an answer without a body
NoData == [currentStatus |-> "unregistered", attendanceLog |-> <<>>,
           discordUser |-> Undefined]

\* a GET /status request in flight
Sent == [state |-> "sent", outcome |-> "pending", data |-> NoData]

\* an answered GET /status request: outcome "ok", "404" or "fail"
Done(outcome, data) == [state |-> "done", outcome |-> outcome, data |-> data]

\* lines 117-125: fetchStatus of a render whose userId is uid, up to its
\* await: without a userId loading ends, otherwise GET /status is issued
fetchStatusCall(uid, reqs) ==
    IF uid = NoUser
    THEN /\ loading' = FALSE
         /\ requests' = reqs
    ELSE /\ loading' = loading
         /\ requests' = Append(reqs, Sent)

\* lines 146-148: the effect runs fetchStatus again when userId has changed
userIdEffect(reqs) ==
    IF userId' # userId
    THEN fetchStatusCall(userId', reqs)
    ELSE /\ loading' = loading
         /\ requests' = reqs

\* handleLogout that leaves the log and the status as they are
handleLogout_KeepsLog ==
    /\ userId' = NoUser
    /\ discordUser' = Undefined
    /\ storedId' = NoUser
    /\ UNCHANGED <<status, logs>>

\* lines 109-115
handleLogout ==
    /\ userId' = NoUser
    /\ discordUser' = Undefined
    /\ storedId' = NoUser
    /\ status' = "unregistered"
    /\ logs' = <<>>

\* the main screen is rendered: neither the loading nor the login screen
MainScreen == ~loading /\ userId # NoUser /\ discordUser # Undefined

\* the login screen is rendered
LoginScreen == ~loading /\ (userId = NoUser \/ discordUser = Undefined)

\* state after construction and the first run of the effect of lines 146-148
InitApp ==
    /\ status = "unregistered"
    /\ logs = <<>>
    /\ discordUser = Undefined
    /\ storedId \in {NoUser, "u1"}
    /\ userId = storedId
    /\ isLoggingIn = FALSE
    /\ todayWorkTime = 0
    /\ clock = At(2, 12, 0)
    /\ now = Null
    /\ posts = <<>>
    /\ loading = (userId # NoUser)
    /\ requests = IF userId = NoUser THEN <<>> ELSE <<Sent>>

\* the logout button
HandleLogout ==
    /\ MainScreen
    /\ handleLogout
    /\ userIdEffect(requests)
    /\ UNCHANGED <<todayWorkTime, clock, now, isLoggingIn, posts>>

\* lines 134-139: GET /status number i is answered 200 with body data
StatusOk(i, data) ==
    /\ requests[i].state = "sent"
    /\ status' = data.currentStatus
    /\ logs' = data.attendanceLog
    /\ discordUser' = data.discordUser
    /\ loading' = FALSE
    /\ requests' = [requests EXCEPT ![i] = Done("ok", data)]
    /\ UNCHANGED <<todayWorkTime, clock, now, userId, storedId, isLoggingIn, posts>>

\* lines 126-130: GET /status number i is answered 404
Status404(i) ==
    /\ requests[i].state = "sent"
    /\ handleLogout
    /\ userIdEffect([requests EXCEPT ![i] = Done("404", NoData)])
    /\ UNCHANGED <<todayWorkTime, clock, now, isLoggingIn, posts>>

\* StatusFail with loading ended in a finally block
StatusFail_EndsLoading(i) ==
    /\ requests[i].state = "sent"
    /\ requests' = [requests EXCEPT ![i] = Done("fail", NoData)]
    /\ loading' = FALSE
    /\ UNCHANGED <<logs, status, todayWorkTime, clock, now, userId, discordUser,
                   storedId, isLoggingIn, posts>>

\* lines 131-133 and 140-143: GET /status number i fails (the fetch throws,
\* or the answer is neither OK nor 404)
StatusFail(i) ==
    /\ requests[i].state = "sent"
    /\ requests' = [requests EXCEPT ![i] = Done("fail", NoData)]
    /\ UNCHANGED <<logs, status, todayWorkTime, clock, now, userId, discordUser,
                   loading, storedId, isLoggingIn, posts>>

\* lines 202-204: the left button sends POST /stamp
HandleStamp ==
    /\ MainScreen
    /\ Len(posts) < MaxPosts
    /\ posts' = Append(posts, "stamp")
    /\ UNCHANGED <<logs, status, todayWorkTime, clock, now, userId, discordUser,
                   loading, storedId, isLoggingIn, requests>>

\* lines 213-215: the right button (disabled when unregistered) sends
\* POST /clock_out
HandleClockOut ==
    /\ MainScreen
    /\ status # "unregistered"
    /\ Len(posts) < MaxPosts
    /\ posts' = Append(posts, "clock_out")
    /\ UNCHANGED <<logs, status, todayWorkTime, clock, now, userId, discordUser,
                   loading, storedId, isLoggingIn, requests>>

\* the POST requests in flight without number i
WithoutPost(i) == [k \in 1..(Len(posts) - 1) |-> IF k < i THEN posts[k] ELSE posts[k + 1]]

\* lines 205-207 and 216-218: POST number i is answered OK and fetchStatus of
\* the render that sent it (whose userId was set) issues GET /status
PostOk(i) ==
    /\ i \in 1..Len(posts)
    /\ Len(requests) < MaxRequests
    /\ posts' = WithoutPost(i)
    /\ requests' = Append(requests, Sent)
    /\ UNCHANGED <<logs, status, todayWorkTime, clock, now, userId, discordUser,
                   loading, storedId, isLoggingIn>>

\* lines 208-210 and 218-224: POST number i fails or is answered not OK
PostNotOk(i) ==
    /\ i \in 1..Len(posts)
    /\ posts' = WithoutPost(i)
    /\ UNCHANGED <<logs, status, todayWorkTime, clock, now, userId, discordUser,
                   loading, storedId, isLoggingIn, requests>>

\* lines 187-195: the login button, GET /auth/discord answered with a url
HandleLogin ==
    /\ LoginScreen
    /\ isLoggingIn' = TRUE
    /\ UNCHANGED <<logs, status, todayWorkTime, clock, now, userId, discordUser,
                   loading, storedId, requests, posts>>

\* lines 166-178: the poll of /auth/me/latest finds a user
LoginPollOk ==
    /\ isLoggingIn
    /\ userId = NoUser => Len(requests) < MaxRequests
    /\ userId' = "u1"
    /\ storedId' = "u1"
    /\ isLoggingIn' = FALSE
    /\ userIdEffect(requests)
    /\ UNCHANGED <<logs, status, todayWorkTime, clock, now, discordUser, posts>>

NextApp ==
    \/ TimerTick
    \/ HandleLogout
    \/ \E i \in 1..Len(requests) :
          \/ \E data \in StatusResponses : StatusOk(i, data)
          \/ Status404(i)
          \/ StatusFail(i)
    \/ HandleStamp
    \/ HandleClockOut
    \/ \E i \in 1..Len(posts) : PostOk(i) \/ PostNotOk(i)
    \/ HandleLogin
    \/ LoginPollOk

SpecApp == InitApp /\ [][NextApp]_vars

----------------------------------------------------------------------------
(* What the claims speak of, stated on the log itself *)

\* calculateTodayWorkTime has been called on (logs, status)
Called == now # Null

\* a call has just returned: the clock still shows the instant it read, and
\* todayWorkTime is the total it returned
Returned == now # Null /\ clock = now

IsStartLike(e) == e.type \in {"work_start", "break_end"}

IsEndLike(e) == e.type \in {"work_end", "break_start"}

\* the position of the start that is open just before position j of l: the
\* last event of a known kind before j, if it is start-like; 0 if none is open
OpenIndex(l, j) ==
    LET known == {i \in 1..(j - 1) : l[i].type \in AttendanceRecordType}
        last == CHOOSE i \in known : \A k \in known : k <= i
    IN  IF known # {} /\ IsStartLike(l[last]) THEN last ELSE 0

\* f[1] + ... + f[n]
RECURSIVE SumTo(_, _)
SumTo(f, n) == IF n = 0 THEN 0 ELSE SumTo(f, n - 1) + f[n]

\* the part of [start, end) that lies after the start of the bucket
PartAfter(start, end, bucketStart) ==
    LET from == IF start > bucketStart THEN start ELSE bucketStart
    IN  IF end - from > 0 THEN end - from ELSE 0

\* the part of [start, end) that lies inside [bucketStart, bucketEnd)
PartInside(start, end, bucketStart, bucketEnd) ==
    LET from == IF start > bucketStart THEN start ELSE bucketStart
        to == IF end < bucketEnd THEN end ELSE bucketEnd
    IN  IF to - from > 0 THEN to - from ELSE 0

\* the sum over the intervals that an end-like event closes, each counted
\* from the start of the bucket on
ClosedTime(l, bucketStart) ==
    SumTo([j \in 1..Len(l) |->
              IF IsEndLike(l[j]) /\ OpenIndex(l, j) # 0
              THEN PartAfter(l[OpenIndex(l, j)].timestamp, l[j].timestamp, bucketStart)
              ELSE 0],
          Len(l))

WorkStartAt(t) == [type |-> "work_start", timestamp |-> t]

WorkEndAt(t) == [type |-> "work_end", timestamp |-> t]

----------------------------------------------------------------------------
(* C1 *)

\* C1: when the scan ends with an open start s and the current status is
\* 'working', the final interval [s, now) is closed and its length (the part
\* of it in today) is added to the total of the closed intervals; for
\* log = [work_start@09:00], status = working, now = 09:30 the total is
\* exactly 30 minutes.
C1_OpenIntervalExtendedToNow ==
    /\ (Returned /\ status = "working" /\ OpenIndex(logs, Len(logs) + 1) # 0)
          => todayWorkTime =
                ClosedTime(logs, startOfTodayTime(now))
                + PartAfter(logs[OpenIndex(logs, Len(logs) + 1)].timestamp, now,
                            startOfTodayTime(now))
    /\ (Returned /\ logs = <<WorkStartAt(At(2, 9, 0))>> /\ status = "working"
           /\ now = At(2, 9, 30))
          => todayWorkTime = 30

C1_Witness ==
    /\ Returned
    /\ logs = <<WorkStartAt(At(2, 9, 0))>>
    /\ status = "working"
    /\ now = At(2, 9, 30)
    /\ todayWorkTime = 30

----------------------------------------------------------------------------
(* C2 *)

\* C2: when the current status is not 'working', a dangling open start adds
\* no duration: the total is the sum of the intervals closed by end-like
\* events only; for log = [work_start@10:00], status = unregistered,
\* now = 12:00 the total is 0.
C2_DanglingStartDiscarded ==
    /\ (Returned /\ status # "working")
          => todayWorkTime = ClosedTime(logs, startOfTodayTime(now))
    /\ (Returned /\ logs = <<WorkStartAt(At(2, 10, 0))>> /\ status = "unregistered"
           /\ now = At(2, 12, 0))
          => todayWorkTime = 0

C2_Witness ==
    /\ Returned
    /\ logs = <<WorkStartAt(At(2, 9, 0)), WorkEndAt(At(2, 10, 0)),
                WorkStartAt(At(2, 10, 0))>>
    /\ status = "on_break"
    /\ now = At(2, 12, 0)
    /\ OpenIndex(logs, Len(logs) + 1) = 3
    /\ todayWorkTime = 60

----------------------------------------------------------------------------
(* C3 *)

\* the hours of a logical day, in minutes
BucketEnd(bucketStart) == bucketStart + 24 * 60

\* every active interval of l counted by its part inside today's bucket: the
\* intervals closed by end-like events and, when working, the open one
TimeInsideToday(l, currentStatus, t) ==
    LET bucketStart == startOfTodayTime(t)
        open == OpenIndex(l, Len(l) + 1)
    IN  SumTo([j \in 1..Len(l) |->
                  IF IsEndLike(l[j]) /\ OpenIndex(l, j) # 0
                  THEN PartInside(l[OpenIndex(l, j)].timestamp, l[j].timestamp,
                                  bucketStart, BucketEnd(bucketStart))
                  ELSE 0],
              Len(l))
        + (IF currentStatus = "working" /\ open # 0
           THEN PartInside(l[open].timestamp, t, bucketStart, BucketEnd(bucketStart))
           ELSE 0)

\* C3: for the day bucket [bucketStart, bucketEnd) that starts at the 05:00
\* reset hour, every active interval [start, end) contributes exactly
\* max(0, min(end, bucketEnd) - max(start, bucketStart)) to the total, at the
\* bucket's start and at its end, also when event timestamps lie after now.
C3_ClippedToTodayBucket ==
    Called => todayWorkTime = TimeInsideToday(logs, status, now)

----------------------------------------------------------------------------
(* C4 *)

\* the log l with its entries in the order p gives
Permuted(l, p) == [i \in 1..Len(l) |-> l[p[i]]]

\* C4: the events are sorted by timestamp before they are paired, so the
\* total is the same for every permutation of the same events.
C4_SameTotalForEveryPermutation ==
    Called => \A p \in Permutations(1..Len(logs)) :
                  WorkTimeAt(Permuted(logs, p), status, now) = todayWorkTime

----------------------------------------------------------------------------
(* C5 *)

\* C5: the total is never negative and no interval lowers it: an interval
\* whose clipped length is negative or zero (its end not after its start or
\* not after the start of today, or now not after the open start) adds
\* exactly zero.
C5_TotalNeverLowered ==
    Returned =>
       LET sot == startOfTodayTime(now)
           scan == [k \in 0..Len(logs) |-> ScanTo(logs, k, sot)]
           open == OpenIndex(logs, Len(logs) + 1)
       IN  /\ todayWorkTime >= 0
           /\ todayWorkTime >= scan[Len(logs)].totalTime
           /\ \A k \in 1..Len(logs) :
                 /\ scan[k].totalTime
                       >= scan[k - 1].totalTime
                 /\ ( /\ IsEndLike(logs[k])
                      /\ OpenIndex(logs, k) # 0
                      /\ \/ logs[k].timestamp <= logs[OpenIndex(logs, k)].timestamp
                         \/ logs[k].timestamp <= sot )
                       => scan[k].totalTime
                             = scan[k - 1].totalTime
           /\ (status = "working" /\ open # 0 /\ now <= logs[open].timestamp)
                 => todayWorkTime = scan[Len(logs)].totalTime

C5_Witness ==
    /\ Returned
    /\ logs = <<WorkStartAt(At(2, 10, 0)), WorkEndAt(At(2, 9, 0)),
                WorkStartAt(At(2, 10, 0))>>
    /\ status = "working"
    /\ now = At(2, 9, 30)
    /\ todayWorkTime = 0

----------------------------------------------------------------------------
(* C6 *)

\* the log l without its entry at position a
RemoveAt(l, a) == [i \in 1..(Len(l) - 1) |-> IF i < a THEN l[i] ELSE l[i + 1]]

\* C6: of two start-like events with no end-like event between them, the
\* later one (in the order of the log) overwrites the earlier one as the open
\* start: the interval closed by the next end-like event, or by now, begins
\* at the later start's timestamp, and the earlier start adds no duration.
C6_LaterStartOverwrites ==
    Returned =>
       LET sot == startOfTodayTime(now)
           scan == [k \in 0..Len(logs) |-> ScanTo(logs, k, sot)]
           n == Len(logs)
       IN  \A a \in 1..n, b \in 1..n :
              ( /\ a < b
                /\ IsStartLike(logs[a])
                /\ IsStartLike(logs[b])
                /\ \A m \in a..b : ~IsEndLike(logs[m]) )
              => /\ scan[b].lastStartTime = logs[b].timestamp
                 /\ WorkTimeAt(RemoveAt(logs, a), status, now) = todayWorkTime
                 /\ \A j \in (b + 1)..n :
                       (IsEndLike(logs[j]) /\ OpenIndex(logs, j) = b)
                       => scan[j].totalTime
                             = scan[j - 1].totalTime
                               + PartAfter(logs[b].timestamp, logs[j].timestamp, sot)
                 /\ (status = "working" /\ OpenIndex(logs, n + 1) = b)
                       => todayWorkTime
                             = scan[n].totalTime
                               + PartAfter(logs[b].timestamp, now, sot)

C6_Witness ==
    /\ Returned
    /\ logs = <<WorkStartAt(At(1, 23, 0)), WorkStartAt(At(2, 9, 0)),
                WorkEndAt(At(2, 10, 0))>>
    /\ now = At(2, 12, 0)
    /\ todayWorkTime = 60

----------------------------------------------------------------------------
(* C7 *)

\* C7: an end-like event met while no start is open is ignored: it adds zero
\* and leaves the open start unset; closing an interval clears the open
\* start, so of two consecutive end-like events the second closes nothing.
\* For log = [work_end@09:00] alone the total is 0.
C7_UnmatchedEndIgnored ==
    Returned =>
       LET sot == startOfTodayTime(now)
           scan == [k \in 0..Len(logs) |-> ScanTo(logs, k, sot)]
       IN  /\ \A k \in 1..Len(logs) :
                 IsEndLike(logs[k])
                 => /\ scan[k].lastStartTime = Null
                    /\ OpenIndex(logs, k) = 0
                          => scan[k] = scan[k - 1]
           /\ \A k \in 1..(Len(logs) - 1) :
                 (IsEndLike(logs[k]) /\ IsEndLike(logs[k + 1]))
                 => scan[k + 1].totalTime
                       = scan[k].totalTime
           /\ logs = <<WorkEndAt(At(2, 9, 0))>> => todayWorkTime = 0

C7_Witness ==
    /\ Returned
    /\ logs = <<WorkStartAt(At(2, 9, 0)), WorkEndAt(At(2, 10, 0)),
                WorkEndAt(At(2, 10, 0))>>
    /\ now = At(2, 12, 0)
    /\ todayWorkTime = 60

----------------------------------------------------------------------------
(* C8 *)

IsKnownKind(e) == e.type \in AttendanceRecordType

UnknownAt(t) == [type |-> "overtime_start", timestamp |-> t]

\* C8 as stated: a log that holds an event of an unknown kind is rejected,
\* so no call on such a log returns a total.
C8_UnknownKindRejected ==
    (\E k \in 1..Len(logs) : ~IsKnownKind(logs[k])) => ~Called

\* C8 as amended: an event of an unknown kind is skipped. It adds no
\* duration and leaves the open start as it was, and the call returns the
\* total computed from the remaining events.
C8_UnknownKindSkipped ==
    Returned =>
       LET sot == startOfTodayTime(now)
           scan == [k \in 0..Len(logs) |-> ScanTo(logs, k, sot)]
       IN  /\ \A k \in 1..Len(logs) :
                 ~IsKnownKind(logs[k])
                 => scan[k] = scan[k - 1]
           /\ todayWorkTime = WorkTimeAt(SelectSeq(logs, IsKnownKind), status, now)

C8_Witness ==
    /\ Returned
    /\ logs = <<WorkStartAt(At(2, 9, 0)), UnknownAt(At(1, 23, 0)),
                WorkEndAt(At(2, 10, 0))>>
    /\ now = At(2, 12, 0)
    /\ todayWorkTime = 60

----------------------------------------------------------------------------
(* C9 *)

----------------------------------------------------------------------------
(* C10 *)

\* the closing events that may be appended
ClosingEvents ==
    [type : {"work_end", "break_start"}, timestamp : EventTimes \cup NowTimes]

LaterThanAll(e, l) == \A i \in 1..Len(l) : l[i].timestamp < e.timestamp

\* C10 as stated: appending a closing event later than every event of the
\* log never makes the total smaller, for every log, status and now.
C10_AppendNeverDecreases ==
    Called =>
       \A e \in ClosingEvents :
          LaterThanAll(e, logs)
          => WorkTimeAt(Append(logs, e), status, now) >= todayWorkTime

\* C10 as amended: appending a closing event later than every event of the
\* log never makes the total smaller when the status is not 'working' or the
\* event's timestamp is not earlier than now.
C10_AppendNotBeforeNowNeverDecreases ==
    Returned =>
       \A e \in ClosingEvents :
          (LaterThanAll(e, logs) /\ (status # "working" \/ e.timestamp >= now))
          => WorkTimeAt(Append(logs, e), status, now) >= todayWorkTime

C10_Witness ==
    /\ Returned
    /\ logs = <<WorkStartAt(At(2, 9, 0))>>
    /\ status = "working"
    /\ now = At(2, 9, 30)
    /\ todayWorkTime = 30
    /\ WorkTimeAt(Append(logs, WorkEndAt(At(2, 10, 0))), status, now) = 60

----------------------------------------------------------------------------
(* C11 *)

\* C11: with an empty log the work time is 0 for every status and every now:
\* calculateTodayWorkTime returns 0 and the timer sets todayWorkTime to 0; and
\* where the app itself empties the log (initial state, handleLogout) the
\* status is 'unregistered': an empty log with another status is the body of
\* a /status answer.
C11_ZeroOnEmptyLog ==
    /\ [](\A s \in UserStatus :
             /\ \A t \in NowTimes : WorkTimeAt(<<>>, s, t) = 0
             /\ calculateTodayWorkTime(<<>>, s) = 0)
    /\ [](logs = <<>>
             => \/ status = "unregistered"
                \/ \E i \in 1..Len(requests) :
                      /\ requests[i].outcome = "ok"
                      /\ requests[i].data.attendanceLog = <<>>
                      /\ requests[i].data.currentStatus = status)
    /\ [][(TimerTick /\ logs = <<>>) => todayWorkTime' = 0]_vars
    /\ [][(HandleLogout \/ \E i \in 1..Len(requests) : Status404(i))
             => (logs' = <<>> /\ status' = "unregistered")]_vars

\* the timer showed the time of a non-empty log, the user logged out and the
\* timer fired again
C11_Witness ==
    /\ now # Null
    /\ userId = NoUser
    /\ logs = <<>>
    /\ status = "unregistered"
    /\ todayWorkTime = 0

----------------------------------------------------------------------------
(* C12 *)

\* C12: when GET /status fails while a userId is set, fetchStatus changes no
\* state (status, logs, discordUser, userId, the stored id and loading keep
\* their values), so during the initial load loading remains true: loading
\* ends only with a step that is not such a failure.
C12_FailedFetchChangesNothing ==
    /\ [][(\E i \in 1..Len(requests) : StatusFail(i))
             => UNCHANGED <<status, logs, discordUser, userId, storedId, loading,
                            todayWorkTime>>]_vars
    /\ [][(loading /\ ~loading')
             => \E i \in 1..Len(requests) :
                   /\ requests[i].state = "sent"
                   /\ requests'[i].outcome \in {"ok", "404"}]_vars

\* the request of the initial load has failed and the loading screen stays
C12_Witness ==
    /\ userId = "u1"
    /\ loading
    /\ requests = <<Done("fail", NoData)>>
    /\ status = "unregistered"
    /\ logs = <<>>

----------------------------------------------------------------------------
(* C13 *)

\* C13: a 404 answer of GET /status is treated as a logout: userId becomes
\* null, 'kintai_user_id' is removed from localStorage, discordUser is
\* cleared, status becomes 'unregistered' and logs empty; nothing of the
\* answer is written into status or logs.
C13_NotFoundLogsOut ==
    [][(\E i \in 1..Len(requests) : Status404(i))
          => /\ userId' = NoUser
             /\ storedId' = NoUser
             /\ discordUser' = Undefined
             /\ status' = "unregistered"
             /\ logs' = <<>>]_vars

\* a first answer filled the state, a second one was 404
C13_Witness ==
    /\ Len(requests) >= 2
    /\ requests[1].outcome = "ok"
    /\ requests[1].data.attendanceLog # <<>>
    /\ requests[2].outcome = "404"
    /\ userId = NoUser
    /\ storedId = NoUser
    /\ discordUser = Undefined
    /\ status = "unregistered"
    /\ logs = <<>>

----------------------------------------------------------------------------
(* C14 *)

\* C14: in every reachable state, userId = null implies that logs is empty,
\* status is 'unregistered' and discordUser is undefined, also when /status
\* requests are in flight at the logout.
C14_LoggedOutStateIsEmpty ==
    userId = NoUser
    => (logs = <<>> /\ status = "unregistered" /\ discordUser = Undefined)

----------------------------------------------------------------------------
(* C15 *)

\* C15: once every GET /status request has been answered, the displayed
\* status and logs are those of the answer to the most recently issued
\* request: an answer to an older request never overwrites what a newer one
\* wrote (stated for a logged-in user whose latest request was answered 200).
C15_LatestResponseShown ==
    ( /\ userId # NoUser
      /\ Len(requests) > 0
      /\ \A i \in 1..Len(requests) : requests[i].state = "done"
      /\ requests[Len(requests)].outcome = "ok" )
    => /\ status = requests[Len(requests)].data.currentStatus
       /\ logs = requests[Len(requests)].data.attendanceLog

====
